---------------------------- MODULE Spec2Model ----------------------------
(***************************************************************************)
(* Session orchestration and captcha-task rendezvous of steel-browser:     *)
(* SessionService (api/src/services/session.service.ts) and the session    *)
(* HTTP handlers (api/src/modules/sessions/sessions.controller.ts).        *)
(*                                                                         *)
(* Node runs every handler on one event loop: code between two awaits is   *)
(* one atomic step, a continuation queued by a promise settlement (a       *)
(* microtask) runs before the next I/O callback, and an await of a real    *)
(* I/O operation is a point where any other handler may run.  Each action  *)
(* below is one such atomic segment.                                       *)
(***************************************************************************)
EXTENDS Integers, Sequences, FiniteSets, TLC

\* Number of startSession/endSession invocations explored.
MaxOps == 2

VARIABLES
    sessions,       \* heap of Session objects, in allocation order
    activeSession,  \* SessionService.activeSession: index into sessions
    pastSessions,   \* SessionService.pastSessions: sequence of indices
    tunnels,        \* ProxyServer objects; tunnels[i] was built for sessions[i]
    cdp,            \* default driver (CDPService)
    selenium,       \* SeleniumService
    cleaned,        \* session ids handed to fileService.cleanupFiles
    calls,          \* startSession/endSession invocations, in arrival order
    captchaTasks,   \* SessionService.captchaTasks: taskId -> CaptchaTaskState
    promises,       \* the rendezvous of every addCaptchaTask, in creation order
    solves,         \* the in-page solve step started with promises[i]
    waiters,        \* get-captcha-status requests, in arrival order
    connections,    \* upgrade requests received by the browserWebSocket plugin
    listeners,      \* cdpService's listeners: event name -> set of connections
    now,            \* the clock read by new Date()
    queries         \* answers of get-session-by-id and list-sessions, in order

sessionVars == <<sessions, activeSession, pastSessions, tunnels, cdp, selenium, cleaned, calls>>
captchaVars == <<captchaTasks, promises, solves, waiters>>
wsVars == <<connections, listeners>>
httpVars == <<now, queries>>
vars == <<sessions, activeSession, pastSessions, tunnels, cdp, selenium, cleaned, calls,
          captchaTasks, promises, solves, waiters, connections, listeners, now, queries>>

----------------------------------------------------------------------------
(* Session records *)

\* Lines 34-46, defaultSession: the endpoint URLs derived from the base
\* configuration by getBaseUrl / getUrl.
DefaultUrls == [ websocketUrl     |-> "getBaseUrl(ws)",
                 debugUrl         |-> "getUrl(v1/sessions/debug)",
                 debuggerUrl      |-> "getUrl(v1/devtools/inspector.html)",
                 sessionViewerUrl |-> "getBaseUrl()" ]

\* Lines 34-46, defaultSession: the other defaults.  A JavaScript value is
\* written as a string, "undefined" for undefined.
DefaultSession == [ status       |-> "idle",
                    dimensions   |-> "1920x1080",
                    isSelenium   |-> "false",
                    proxy        |-> "",
                    solveCaptcha |-> "false" ]

\* Lines 25-32, sessionStats.
SessionStats == [ duration |-> 0, eventCount |-> 0, timeout |-> 0, creditsUsed |-> 0,
                  proxyTxBytes |-> 0, proxyRxBytes |-> 0 ]

\* { ...a, ...b }: every own property of b, an undefined one included,
\* replaces the property of a.
spread(a, b) == [f \in DOMAIN a \cup DOMAIN b |-> IF f \in DOMAIN b THEN b[f] ELSE a[f]]

\* if (v), v || w: the falsy values.
Truthy(v) == v \notin {"undefined", "", "false"}

\* uuidv4(): an id no record has yet.
uuid(ss) == <<"uuid", Len(ss) + 1>>

\* The record built in the constructor (lines 82-91) and in resetSessionInfo
\* (lines 264-274) from the layered properties: the fields read as flags are
\* kept by their truthiness, beside the values the record holds.
NewSession(id, props, signalled) ==
    [ id               |-> id,
      createdAt        |-> now,
      status           |-> props.status,
      proxy            |-> Truthy(props.proxy),        \* a proxy URL was requested
      isSelenium       |-> Truthy(props.isSelenium),
      details          |-> [dimensions |-> props.dimensions,
                            isSelenium |-> props.isSelenium,
                            proxy      |-> props.proxy],
      duration         |-> props.duration,
      eventCount       |-> props.eventCount,
      timeout          |-> props.timeout,
      creditsUsed      |-> props.creditsUsed,
      proxyTxBytes     |-> props.proxyTxBytes,
      proxyRxBytes     |-> props.proxyRxBytes,
      signalled        |-> signalled,    \* completion promise resolved
      proxyServer      |-> 0,            \* tunnel handle, 0 for undefined
      driverStarted    |-> FALSE,        \* a driver launch for this record succeeded
      launchTimezone   |-> "none",       \* timezone option of that launch: set / unset
      bytesFrom        |-> {},           \* tunnels whose byte counts were added here
      websocketUrl     |-> DefaultUrls.websocketUrl,
      debugUrl         |-> DefaultUrls.debugUrl,
      debuggerUrl      |-> DefaultUrls.debuggerUrl,
      sessionViewerUrl |-> DefaultUrls.sessionViewerUrl ]

\* this.activeSession.complete()
complete(ss, s) == [ss EXCEPT ![s].signalled = TRUE]

NoCall == [op |-> "none", pc |-> "none", sessionId |-> <<>>, dimensions |-> "undefined",
           proxyUrl |-> FALSE, isSelenium |-> FALSE,
           timezone |-> FALSE, sessionInfo |-> 0, closing |-> 0,
           ret |-> 0, retStatus |-> "none", activeStatus |-> "none", reply |-> "none",
           threwAt |-> "none", at |-> 0, wasStatus |-> "none", wasSignalled |-> FALSE,
           began |-> 0]

InFlightPcs == {"reset", "listen", "geo", "mkdir", "shutdown", "launch", "startNew",
                "driver", "cleanup"}

InFlight == {c \in 1..Len(calls) : calls[c].pc \in InFlightPcs}

\* A call that has returned or thrown keeps only its outcome.  The handler
\* that awaited it sends the record it got (200), or, in its catch, answers
\* 500 with the error's message.
Returned(call, ss, act) ==
    [NoCall EXCEPT !.op = call.op, !.pc = "done", !.sessionInfo = call.sessionInfo,
                   !.ret = act, !.retStatus = ss[act].status, !.at = call.at,
                   !.activeStatus = "none", !.reply = "200"]

Threw(call) == [NoCall EXCEPT !.op = call.op, !.pc = "threw",
                              !.sessionInfo = call.sessionInfo, !.reply = "500",
                              !.threwAt = call.pc]

----------------------------------------------------------------------------
(* Captcha task registry *)

TaskIds == {"t1", "t2"}

\* A key the Map does not hold.
NoTask == [status |-> "absent", pageId |-> "none", startTime |-> 0, endTime |-> 0,
           timeTaken |-> 0, result |-> "none", error |-> "none", promise |-> 0]

\* What the in-page solve step reports: a solver payload (CaptchaResult), or
\* the message of the error it threw.
Payloads == {[success |-> b, started_at |-> 1, ended_at |-> 2, time_taken |-> 1] :
                b \in BOOLEAN}
NoPayload == [success |-> FALSE, started_at |-> 0, ended_at |-> 0, time_taken |-> 0]

\* getCaptchaTask(taskId)
getCaptchaTask(tasks, taskId) == tasks[taskId]

\* An addCaptchaTask that makes the promise and leaves the Map as it is.
addCaptchaTask_Unregistered(tasks, proms, taskId, pageId) ==
    [ tasks |-> tasks,
      proms |-> Append(proms, [state |-> "pending", value |-> "none", calls |-> 0]) ]

\* addCaptchaTask(taskId, pageId): a fresh pending promise, and the entry of
\* taskId is set to (overwritten by) a pending task holding it.
addCaptchaTask(tasks, proms, taskId, pageId) ==
    [ tasks |-> [tasks EXCEPT ![taskId] =
                    [NoTask EXCEPT !.status = "pending", !.pageId = pageId,
                                   !.promise = Len(proms) + 1]],
      proms |-> Append(proms, [state |-> "pending", value |-> "none", calls |-> 0]) ]

\* task.resolve(v) / task.reject(r): a Promise keeps its first settlement.
settlePromise(proms, p, state, value) ==
    [proms EXCEPT ![p] = [state |-> IF @.state = "pending" THEN state ELSE @.state,
                          value |-> IF @.state = "pending" THEN value ELSE @.value,
                          calls |-> @.calls + 1]]

\* clearCaptchaTasks(): reject every task still pending, then empty the Map.
RECURSIVE rejectPending(_, _, _)
rejectPending(tasks, proms, ids) ==
    IF ids = {} THEN proms
    ELSE LET t == CHOOSE x \in ids : TRUE
             next == IF tasks[t].status = "pending"
                     THEN settlePromise(proms, tasks[t].promise, "rejected", "failed")
                     ELSE proms
         IN rejectPending(tasks, next, ids \ {t})

\* clearCaptchaTasks rejecting every task, whatever its status.
clearCaptchaTasks_RejectAll(tasks, proms) ==
    [ tasks |-> [t \in TaskIds |-> NoTask],
      proms |-> rejectPending([t \in TaskIds |->
                                 IF tasks[t].status = "absent" THEN tasks[t]
                                 ELSE [tasks[t] EXCEPT !.status = "pending"]],
                              proms, TaskIds) ]

clearCaptchaTasks(tasks, proms) ==
    [ tasks |-> [t \in TaskIds |-> NoTask],
      proms |-> rejectPending(tasks, proms, TaskIds) ]

\* The events of cdpService the upgrade handlers relay.
EventNames == {"log", "pageId", "recording"}

Init ==
    /\ now = 0
    /\ queries = <<>>
    /\ sessions = <<NewSession(uuid(<<>>), spread(DefaultSession, SessionStats), TRUE)>>
    /\ activeSession = 1
    /\ pastSessions = <<>>
    /\ tunnels = <<"none">>
    /\ cdp = "running"
    /\ selenium = "off"
    /\ cleaned = {}
    /\ calls = <<>>
    /\ captchaTasks = [t \in TaskIds |-> NoTask]
    /\ promises = <<>>
    /\ solves = <<>>
    /\ waiters = <<>>
    /\ connections = <<>>
    /\ listeners = [e \in EventNames |-> {}]

----------------------------------------------------------------------------
(* resetSessionInfo *)

\* Lines 258-260: signal the outgoing session and start closing its tunnel.
\* Yields the tunnel whose close is awaited (0 when there is none: the
\* await of undefined resumes in the same macrotask).
resetClosing(ss, act) == ss[act].proxyServer

\* A resetSessionInfo whose new record starts from the counters of the
\* session it replaces.
resetSessionInfo_CarryStats(ss, act, overrides) ==
    Append([ss EXCEPT ![act].proxyServer = 0],
           NewSession(overrides.id,
                      spread(spread(DefaultSession, overrides),
                             [f \in DOMAIN SessionStats |-> ss[act][f]]),
                      FALSE))

\* Lines 261-276, after the close has finished: drop the handle of whatever
\* session is active NOW, build the new record and make it the active one.
resetSessionInfo(ss, act, overrides) ==
    Append([ss EXCEPT ![act].proxyServer = 0],
           NewSession(overrides.id,
                      spread(spread(DefaultSession, overrides), SessionStats),
                      FALSE))

\* Lines 127-134: the overrides startSession passes.  A field the request
\* body lacks is passed as undefined.
startOverrides(ss, call) ==
    [ id           |-> IF call.sessionId # <<>> THEN call.sessionId ELSE uuid(ss),
      status       |-> "live",
      proxy        |-> IF call.proxyUrl THEN "url" ELSE "undefined",
      solveCaptcha |-> "false",
      dimensions   |-> call.dimensions,
      isSelenium   |-> IF call.isSelenium THEN "true" ELSE "undefined" ]

\* Lines 246-249: the overrides endSession passes.
endOverrides(ss) == [id |-> uuid(ss), status |-> "idle"]


\* Lines 413-451 of handleGetCaptchaSolvingStatus, after the awaited promise
\* has settled: the task is read again by id, and the answer is built from it.
finalResponse(tasks, taskId) ==
    IF getCaptchaTask(tasks, taskId).status = "absent" THEN "500"
    ELSE getCaptchaTask(tasks, taskId).status

\* The continuations of the handlers awaiting a promise that has just been
\* settled: they run as microtasks of the settling step.
respond(ws, proms, tasks) ==
    [i \in DOMAIN ws |->
        IF ws[i].resp = "blocked" /\ proms[ws[i].promise].state # "pending"
        THEN [ws[i] EXCEPT !.resp = finalResponse(tasks, ws[i].taskId)]
        ELSE ws[i]]

----------------------------------------------------------------------------
(* startSession *)

\* Lines 127-144 after resetSessionInfo's await: the new live record becomes
\* the active session; with a proxy URL a tunnel is built for it and listen()
\* is awaited, otherwise the working directory is made.
StartAfterReset(ss, tn, cs, c) ==
    LET ss2 == resetSessionInfo(ss, activeSession, startOverrides(ss, cs[c]))
        new == Len(ss2)
    IN /\ activeSession' = new
       /\ sessions' = IF cs[c].proxyUrl THEN [ss2 EXCEPT ![new].proxyServer = new] ELSE ss2
       /\ tunnels' = Append(tn, IF cs[c].proxyUrl THEN "new" ELSE "none")
       /\ calls' = [cs EXCEPT ![c].pc = IF cs[c].proxyUrl THEN "listen" ELSE "mkdir",
                              ![c].sessionInfo = new,
                              ![c].closing = 0]
       /\ UNCHANGED <<pastSessions, cdp, selenium, cleaned, captchaVars, wsVars, httpVars>>

\* An endSession that puts the released session at the head of the history.
pushReleased_Front(past, released) == <<released>> \o past

\* An endSession that archives nothing.
pushReleased_Skip(past, released) == past

\* Line 251: this.pastSessions.push(releasedSession)
pushReleased(past, released) == Append(past, released)

\* Lines 244-254 after resetSessionInfo's await: the fresh idle record becomes
\* the active session, the released one is pushed to history, the captcha
\* tasks are cleared and the released record is returned.
EndAfterReset(ss, tn, cs, c) ==
    LET ss2 == resetSessionInfo(ss, activeSession, endOverrides(ss))
        new == Len(ss2)
        released == cs[c].ret
        cleared == clearCaptchaTasks(captchaTasks, promises)
    IN /\ activeSession' = new
       /\ sessions' = ss2
       /\ tunnels' = Append(tn, "none")
       /\ pastSessions' = pushReleased(pastSessions, released)
       /\ captchaTasks' = cleared.tasks
       /\ promises' = cleared.proms
       /\ waiters' = respond(waiters, cleared.proms, cleared.tasks)
       /\ calls' = [cs EXCEPT ![c] = [Returned(cs[c], ss2, released)
                                        EXCEPT !.activeStatus = ss2[new].status]]
       /\ UNCHANGED <<cdp, selenium, cleaned, solves, wsVars, httpVars>>

\* Lines 258-260, entered from startSession (line 127) or endSession (line
\* 246): the outgoing session is signalled; if it holds a tunnel its close is
\* awaited, otherwise the reset goes on at once.
ResetEnter(ss, cs, c) ==
    LET ss1 == complete(ss, activeSession)
        t == resetClosing(ss1, activeSession)
    IN IF t # 0
       THEN /\ sessions' = ss1
            /\ tunnels' = [tunnels EXCEPT ![t] = "closing"]
            /\ calls' = [cs EXCEPT ![c].pc = "reset", ![c].closing = t]
            /\ UNCHANGED <<activeSession, pastSessions, cdp, selenium, cleaned, captchaVars, wsVars, httpVars>>
       ELSE IF cs[c].op = "start"
            THEN StartAfterReset(ss1, tunnels, cs, c)
            ELSE EndAfterReset(ss1, tunnels, cs, c)

\* POST /sessions: handleLaunchBrowserSession calls startSession at once
\* with the fields of the request body.
StartSessionAs(sessionId, dimensions, proxyUrl, isSelenium, timezone) ==
    /\ ResetEnter(sessions,
                  Append(calls, [NoCall EXCEPT !.op = "start", !.sessionId = sessionId,
                                               !.dimensions = dimensions,
                                               !.proxyUrl = proxyUrl,
                                               !.isSelenium = isSelenium,
                                               !.timezone = timezone]),
                  Len(calls) + 1)

\* The same for a body with neither sessionId nor dimensions.
StartSession(proxyUrl, isSelenium, timezone) ==
    StartSessionAs(<<>>, "undefined", proxyUrl, isSelenium, timezone)

\* The tunnel's close(true) has finished: resetSessionInfo goes on.
ResumeReset(c) ==
    /\ calls[c].pc = "reset"
    /\ LET tn == [tunnels EXCEPT ![calls[c].closing] = "closed"]
       IN IF calls[c].op = "start"
          THEN StartAfterReset(sessions, tn, calls, c)
          ELSE EndAfterReset(sessions, tn, calls, c)

\* A startSession that logs a failed listen() and goes on.
ResumeListen_Swallow(c, ok) ==
    /\ calls[c].pc = "listen"
    /\ tunnels' = [tunnels EXCEPT ![calls[c].sessionInfo] =
                      IF ok /\ @ = "new" THEN "listening" ELSE @]
    /\ calls' = [calls EXCEPT ![c].pc = IF calls[c].timezone THEN "mkdir" ELSE "geo"]
    /\ UNCHANGED <<sessions, activeSession, pastSessions, cdp, selenium, cleaned,
                   captchaVars, wsVars, httpVars>>

\* Line 144: listen() has finished, or thrown.
ResumeListen(c, ok) ==
    /\ calls[c].pc = "listen"
    /\ IF ok
       THEN /\ tunnels' = [tunnels EXCEPT ![calls[c].sessionInfo] =
                              IF @ = "new" THEN "listening" ELSE @]
            /\ calls' = [calls EXCEPT ![c].pc = IF calls[c].timezone THEN "mkdir" ELSE "geo"]
       ELSE /\ calls' = [calls EXCEPT ![c] = Threw(calls[c])]
            /\ UNCHANGED tunnels
    /\ UNCHANGED <<sessions, activeSession, pastSessions, cdp, selenium, cleaned, captchaVars, wsVars, httpVars>>

\* A geolocation lookup whose failure is not caught.
ResumeGeo_Uncaught(c, ok) ==
    /\ calls[c].pc = "geo"
    /\ calls' = IF ok THEN [calls EXCEPT ![c].pc = "mkdir", ![c].timezone = TRUE]
                ELSE [calls EXCEPT ![c] = Threw(calls[c])]
    /\ UNCHANGED <<sessions, activeSession, pastSessions, tunnels, cdp, selenium, cleaned,
                   captchaVars, wsVars, httpVars>>

\* Lines 147-175: the geolocation lookup has answered, or failed (caught).
ResumeGeo(c, ok) ==
    /\ calls[c].pc = "geo"
    /\ calls' = [calls EXCEPT ![c].pc = "mkdir", ![c].timezone = ok]
    /\ UNCHANGED <<sessions, activeSession, pastSessions, tunnels, cdp, selenium, cleaned,
                   captchaVars, wsVars, httpVars>>

\* Lines 178-216: mkdir has finished, or thrown; the driver is chosen.
ResumeMkdir(c, ok) ==
    /\ calls[c].pc = "mkdir"
    /\ calls' = IF ok
                THEN [calls EXCEPT ![c].pc = IF calls[c].isSelenium THEN "shutdown"
                                             ELSE "startNew"]
                ELSE [calls EXCEPT ![c] = Threw(calls[c])]
    /\ UNCHANGED <<sessions, activeSession, pastSessions, tunnels, cdp, selenium, cleaned,
                   captchaVars, wsVars, httpVars>>

\* Lines 202-203: cdpService.shutdown() has finished; Selenium is launched.
ResumeShutdown(c) ==
    /\ calls[c].pc = "shutdown"
    /\ cdp' = "down"
    /\ calls' = [calls EXCEPT ![c].pc = "launch"]
    /\ UNCHANGED <<sessions, activeSession, pastSessions, tunnels, selenium, cleaned,
                   captchaVars, wsVars, httpVars>>

\* Lines 181-199: the driver was launched for the record of this call, with
\* the timezone the call holds by now in its launcher options.
launched(ss, call) ==
    [ss EXCEPT ![call.sessionInfo].driverStarted = TRUE,
               ![call.sessionInfo].launchTimezone = IF call.timezone THEN "set" ELSE "unset"]

\* Lines 205-212: Object.assign on the session active now, Selenium branch.
assignSelenium(ss, act) ==
    [ss EXCEPT ![act].websocketUrl = "", ![act].debugUrl = "",
               ![act].sessionViewerUrl = ""]

\* Lines 218-224: Object.assign on the session active now, default branch.
assignDefault(ss, act) ==
    [ss EXCEPT ![act].websocketUrl = DefaultUrls.websocketUrl,
               ![act].debugUrl = DefaultUrls.debugUrl,
               ![act].debuggerUrl = DefaultUrls.debuggerUrl,
               ![act].sessionViewerUrl = DefaultUrls.sessionViewerUrl]

\* The record startSession returns: this.activeSession, whichever it is now.
StartReturn(c, ss) == [calls EXCEPT ![c] = Returned(calls[c], ss, activeSession)]

\* Lines 203-214: seleniumService.launch() has finished, or thrown.
ResumeLaunch(c, ok) ==
    /\ calls[c].pc = "launch"
    /\ IF ok
       THEN LET ss == assignSelenium(launched(sessions, calls[c]), activeSession)
            IN /\ selenium' = "running"
               /\ sessions' = ss
               /\ calls' = StartReturn(c, ss)
       ELSE /\ calls' = [calls EXCEPT ![c] = Threw(calls[c])]
            /\ UNCHANGED <<sessions, selenium>>
    /\ UNCHANGED <<activeSession, pastSessions, tunnels, cdp, cleaned, captchaVars, wsVars, httpVars>>

\* Lines 216-227: cdpService.startNewSession() has finished, or thrown.
ResumeStartNew(c, ok) ==
    /\ calls[c].pc = "startNew"
    /\ IF ok
       THEN LET ss == assignDefault(launched(sessions, calls[c]), activeSession)
            IN /\ cdp' = "session"
               /\ sessions' = ss
               /\ calls' = StartReturn(c, ss)
       ELSE /\ calls' = [calls EXCEPT ![c] = Threw(calls[c])]
            /\ UNCHANGED <<sessions, cdp>>
    /\ UNCHANGED <<activeSession, pastSessions, tunnels, selenium, cleaned, captchaVars, wsVars, httpVars>>

\* Notifications counted per session.
MaxNotified == 1

\* The stats a notification carries: bytes sent to and received from the
\* target over the connection.
ConnectionStats == {[trgTxBytes |-> 2, trgRxBytes |-> 1]}

\* Lines 138-143: the tunnel built for sessions[t] reports a closed
\* connection with its stats; the handler adds the byte counts to whatever
\* session is active now.  A tunnel carries connections from listen() until
\* its close has finished.
ConnectionClosed(t) ==
    /\ tunnels[t] \in {"listening", "closing"}
    /\ \E stats \in ConnectionStats :
          /\ sessions[activeSession].proxyRxBytes < MaxNotified
          /\ sessions' = [sessions EXCEPT
                            ![activeSession].proxyTxBytes = @ + stats.trgTxBytes,
                            ![activeSession].proxyRxBytes = @ + stats.trgRxBytes,
                            ![activeSession].bytesFrom = @ \cup {t}]
    /\ UNCHANGED <<activeSession, pastSessions, tunnels, cdp, selenium, cleaned, calls,
                   captchaVars, wsVars, httpVars>>

----------------------------------------------------------------------------
(* endSession *)

\* POST /sessions/release: handleExitBrowserSession calls endSession at once.
\* Lines 231-240: signal, mark released, start the driver teardown.
EndSession ==
    /\ sessions' = [complete(sessions, activeSession) EXCEPT
                      ![activeSession].status = "released",
                      ![activeSession].duration = now - sessions[activeSession].createdAt]
    /\ selenium' = IF sessions[activeSession].isSelenium THEN "off" ELSE selenium
    /\ calls' = Append(calls, [NoCall EXCEPT !.op = "end", !.pc = "driver", !.at = now,
                                 !.isSelenium = sessions[activeSession].isSelenium,
                                 \* the active session as the call found it
                                 !.began = activeSession,
                                 !.wasStatus = sessions[activeSession].status,
                                 !.wasSignalled = sessions[activeSession].signalled])
    /\ UNCHANGED <<activeSession, pastSessions, tunnels, cdp, cleaned, captchaVars, wsVars, httpVars>>

\* Lines 235-242: cdpService.launch() / endSession() has finished, or thrown;
\* the file cleanup is started for the session active now.
ResumeDriver(c, ok) ==
    /\ calls[c].pc = "driver"
    /\ IF ok
       THEN /\ cdp' = "running"
            /\ cleaned' = cleaned \cup {activeSession}
            /\ calls' = [calls EXCEPT ![c].pc = "cleanup"]
       ELSE /\ calls' = [calls EXCEPT ![c] = Threw(calls[c])]
            /\ UNCHANGED <<cdp, cleaned>>
    /\ UNCHANGED <<sessions, activeSession, pastSessions, tunnels, selenium, captchaVars, wsVars, httpVars>>

\* Lines 242-246: cleanupFiles has finished, or thrown; the session active
\* now is taken as the released one and the slot is reset.
ResumeCleanup(c, ok) ==
    /\ calls[c].pc = "cleanup"
    /\ IF ok
       THEN ResetEnter(sessions, [calls EXCEPT ![c].ret = activeSession], c)
       ELSE /\ calls' = [calls EXCEPT ![c] = Threw(calls[c])]
            /\ UNCHANGED <<sessions, activeSession, pastSessions, tunnels, cdp, selenium,
                           cleaned, captchaVars, wsVars, httpVars>>

----------------------------------------------------------------------------
(* Captcha handlers *)

\* Requests explored around the captcha registry: captcha-solve initiations,
\* get-captcha-status requests and start/end requests together.
MaxRequests == 3

\* The data objects the solve step passes: {result: payload} on the success
\* path (controller line 359), {error: message} on the failure path (line 371).
ResultData(payload) == [hasResult |-> TRUE, result |-> payload, error |-> "none"]
ErrorData == [hasResult |-> FALSE, result |-> NoPayload, error |-> "msg"]

\* Lines 321-325: the status written to the task.
recordedStatus_AsGiven(data, finalStatus) == finalStatus

recordedStatus(data, finalStatus) ==
    IF finalStatus = "success"
    THEN (IF data.result.success THEN "success" ELSE "failed")
    ELSE finalStatus

\* Lines 321-340, reached with a pending task.  Reading a property of
\* data.result when data.result is undefined throws a TypeError: at line 322
\* before anything is written, or at line 327 after the status has been
\* written and before the promise is settled.
settleTask(tasks, proms, taskId, data, finalStatus) ==
    LET task == getCaptchaTask(tasks, taskId)
    IN IF ~data.hasResult /\ finalStatus = "success"
       THEN [tasks |-> tasks, proms |-> proms, threw |-> TRUE, saw |-> "pending"]
       ELSE IF ~data.hasResult
       THEN [tasks |-> [tasks EXCEPT ![taskId].status = recordedStatus(data, finalStatus)],
             proms |-> proms, threw |-> TRUE, saw |-> "pending"]
       ELSE [tasks |-> [tasks EXCEPT ![taskId] =
                          [@ EXCEPT !.status = recordedStatus(data, finalStatus),
                                    !.startTime = data.result.started_at,
                                    !.endTime = data.result.ended_at,
                                    !.timeTaken = data.result.time_taken,
                                    !.result = IF data.result.success THEN "ok" ELSE "nok",
                                    !.error = data.error]],
             proms |-> IF finalStatus = "success"
                       THEN settlePromise(proms, task.promise, "resolved", "result")
                       ELSE settlePromise(proms, task.promise, "rejected", finalStatus),
             threw |-> FALSE, saw |-> "pending"]

\* updateCaptchaTask without its check of line 316.
updateCaptchaTask_NoPendingCheck(tasks, proms, taskId, data, finalStatus) ==
    IF getCaptchaTask(tasks, taskId).status = "absent"
    THEN [tasks |-> tasks, proms |-> proms, threw |-> FALSE, saw |-> "absent"]
    ELSE [settleTask(tasks, proms, taskId, data, finalStatus) EXCEPT
             !.saw = IF getCaptchaTask(tasks, taskId).status = "pending"
                     THEN "pending" ELSE "settled"]

\* updateCaptchaTask(taskId, data, finalStatus), lines 305-341: nothing is
\* done for an unknown task or for one that is no longer pending.
updateCaptchaTask(tasks, proms, taskId, data, finalStatus) ==
    IF getCaptchaTask(tasks, taskId).status = "absent"
    THEN [tasks |-> tasks, proms |-> proms, threw |-> FALSE, saw |-> "absent"]
    ELSE IF getCaptchaTask(tasks, taskId).status # "pending"
    THEN [tasks |-> tasks, proms |-> proms, threw |-> FALSE, saw |-> "settled"]
    ELSE settleTask(tasks, proms, taskId, data, finalStatus)

\* handleInitiateCaptchaSolve, lines 233-380, with at least one page open:
\* the task is registered, the in-page solve is started and not awaited, and
\* 202 is answered.
InitiateCaptchaSolve(taskId) ==
    /\ LET added == addCaptchaTask(captchaTasks, promises, taskId, "p1")
       IN /\ captchaTasks' = added.tasks
          /\ promises' = added.proms
    /\ solves' = Append(solves, [taskId |-> taskId, state |-> "running",
                                 finalStatus |-> "none", success |-> FALSE,
                                 saw |-> "none",
                                 session |-> activeSession])  \* active at the 202
    /\ UNCHANGED <<sessionVars, waiters, wsVars, httpVars>>

\* Lines 357-372: page.evaluate has returned a payload, or thrown (an error
\* or its own 6-minute timeout); the task is updated accordingly.
SolveFinish(i, data, finalStatus) ==
    /\ solves[i].state = "running"
    /\ LET upd == updateCaptchaTask(captchaTasks, promises, solves[i].taskId, data,
                                    finalStatus)
       IN /\ captchaTasks' = upd.tasks
          /\ promises' = upd.proms
          /\ waiters' = respond(waiters, upd.proms, upd.tasks)
          /\ solves' = [solves EXCEPT ![i] =
                          [@ EXCEPT !.state = IF upd.threw THEN "threw" ELSE "returned",
                                    !.finalStatus = finalStatus,
                                    !.success = data.result.success,
                                    !.saw = upd.saw]]
    /\ UNCHANGED <<sessionVars, wsVars, httpVars>>

SolveOutcomes ==
    {<<ResultData(p), "success">> : p \in Payloads}
        \cup {<<ErrorData, "failed">>, <<ErrorData, "timeout">>}

\* handleGetCaptchaSolvingStatus, lines 398-416: 404 for an unknown task,
\* else the task's promise is awaited (an already settled one answers in the
\* same macrotask).
GetCaptchaStatus(taskId) ==
    /\ LET task == getCaptchaTask(captchaTasks, taskId)
           w == [taskId |-> taskId, promise |-> task.promise,
                 resp |-> IF task.status = "absent" THEN "404" ELSE "blocked",
                 session |-> activeSession,     \* active at the request
                 initiated |-> Len(solves)]     \* initiations answered before it
       IN waiters' = IF task.status = "absent"
                     THEN Append(waiters, w)
                     ELSE respond(Append(waiters, w), promises, captchaTasks)
    /\ UNCHANGED <<sessionVars, captchaTasks, promises, solves, wsVars, httpVars>>

----------------------------------------------------------------------------
(* Session queries *)

\* Time passes.  The clock is read when a request is handled: no more
\* ticks are told apart than requests have arrived.
Tick ==
    /\ now < Len(calls) + Len(queries)
    /\ now' = now + 1
    /\ UNCHANGED <<sessionVars, captchaVars, wsVars, queries>>

\* The fields of a session record a reply carries.
ReplyFields == {"id", "createdAt", "status", "duration", "eventCount", "timeout",
                "creditsUsed", "proxyTxBytes", "proxyRxBytes"}

\* Lines 108-111, 115-118: { ...session, duration: now - createdAt }.
withDuration(session, t) ==
    [f \in ReplyFields |-> IF f = "duration" THEN t - session.createdAt ELSE session[f]]

\* A get-session-by-id that answers with the active session whatever the id.
getSessionReply_AnyId(ss, act, sessionId, t) == withDuration(ss[act], t)

\* handleGetSessionDetails, lines 82-111: a placeholder when the id is not
\* the active session's, else the active session with its duration so far.
getSessionReply(ss, act, sessionId, t) ==
    IF sessionId # ss[act].id
    THEN [id |-> sessionId, createdAt |-> t, status |-> "released", duration |-> 0,
          eventCount |-> 0, timeout |-> 0, creditsUsed |-> 0,
          proxyTxBytes |-> 0, proxyRxBytes |-> 0]
    ELSE withDuration(ss[act], t)

\* GET /sessions/:sessionId
GetSessionDetails(sessionId) ==
    /\ queries' = Append(queries, [op |-> "get", sessionId |-> sessionId,
                                   reply |-> <<getSessionReply(sessions, activeSession,
                                                               sessionId, now)>>])
    /\ UNCHANGED <<sessionVars, captchaVars, wsVars, now>>

\* handleGetSessions, lines 114-121: the active session with its duration so
\* far, then pastSessions as they are.
listReply(ss, act, past, t) ==
    <<withDuration(ss[act], t)>> \o [k \in DOMAIN past |-> [f \in ReplyFields |-> ss[past[k]][f]]]

\* GET /sessions
ListSessions ==
    /\ queries' = Append(queries, [op |-> "list", sessionId |-> <<>>,
                                   reply |-> listReply(sessions, activeSession,
                                                       pastSessions, now)])
    /\ UNCHANGED <<sessionVars, captchaVars, wsVars, now>>

\* The ids a client can ask for: the id of any record, or one of its own.
KnownIds == {sessions[k].id : k \in DOMAIN sessions} \cup {<<"given", 1>>}

\* The ids of the released sessions, which list-sessions has shown.
PastIds == {sessions[pastSessions[k]].id : k \in DOMAIN pastSessions}

\* Start and end requests on the default driver, with a fresh id or the id
\* of a released session and with or without a viewport, get-session-by-id
\* and the clock: MaxOps calls among MaxRequests requests, in any interleaving.
NextDetails ==
    \/ /\ Len(calls) < MaxOps
       /\ Len(calls) + Len(queries) < MaxRequests
       /\ \E sessionId \in PastIds \cup {<<>>} : \E dimensions \in {"undefined", "800x600"} :
             StartSessionAs(sessionId, dimensions, FALSE, FALSE, TRUE)
    \/ /\ Len(calls) < MaxOps
       /\ Len(calls) + Len(queries) < MaxRequests
       /\ EndSession
    \/ \E c \in DOMAIN calls : \E ok \in BOOLEAN : ResumeMkdir(c, ok)
    \/ \E c \in DOMAIN calls : \E ok \in BOOLEAN : ResumeStartNew(c, ok)
    \/ \E c \in DOMAIN calls : \E ok \in BOOLEAN : ResumeDriver(c, ok)
    \/ \E c \in DOMAIN calls : \E ok \in BOOLEAN : ResumeCleanup(c, ok)
    \/ Tick
    \/ /\ Len(calls) + Len(queries) < MaxRequests
       /\ \E sessionId \in KnownIds : GetSessionDetails(sessionId)

SpecDetails == Init /\ [][NextDetails]_vars

----------------------------------------------------------------------------
(* browserWebSocket: the upgrade entry point and its event relays *)

\* Upgrade connections explored.
MaxConnections == 1

\* A request URL is a string, written here as the sequence of the pieces it
\* is made of; "x" stands for any other text.
UrlPieces == {"/v1/sessions/", "logs", "cast", "pageId", "recording", "x", "//"}
Urls == {<<>>} \cup {<<a>> : a \in UrlPieces}
               \cup {<<a, b>> : a, b \in UrlPieces}
               \cup {<<a, b, c>> : a, b, c \in UrlPieces}

\* String.prototype.startsWith
startsWith(url, prefix) ==
    /\ Len(url) >= Len(prefix)
    /\ \A k \in 1..Len(prefix) : url[k] = prefix[k]

\* Line 405: new URL(url, "http://" + host) throws a TypeError when the URL
\* has no host: a request target made of slashes only.  Any other target
\* resolves against the base.
parsesUrl(url) == url = <<>> \/ \E k \in 1..Len(url) : url[k] # "//"

\* The case clauses of the switch (lines 408-464), in order.
Cases == << [prefix |-> <<"/v1/sessions/", "logs">>, handler |-> "logs"],
            [prefix |-> <<"/v1/sessions/", "cast">>, handler |-> "cast"],
            [prefix |-> <<"/v1/sessions/", "pageId">>, handler |-> "pageId"],
            [prefix |-> <<"/v1/sessions/", "recording">>, handler |-> "recording"] >>

\* switch (true), lines 407-476, from clause i on: the first clause whose
\* test is true runs its handler and breaks; with none, the default clause
\* hands the request to the driver's debugging passthrough.
RECURSIVE switchFrom(_, _)
switchFrom(url, i) ==
    IF i > Len(Cases) THEN <<"cdp">>
    ELSE IF startsWith(url, Cases[i].prefix) THEN <<Cases[i].handler>>
    ELSE switchFrom(url, i + 1)

\* The values of the enum EmitEvent the relays subscribe under (the enum is
\* imported at line 369; its values are the topic names the driver emits).
EmitEvent == [Log |-> "log", Recording |-> "recording"]

\* The event each relay subscribes to with on(), and the one it names in
\* removeListener(): lines 383/391, 427/435, 450/457.
RelayEvents == [ logs      |-> [on |-> EmitEvent.Log, off |-> "log"],
                 pageId    |-> [on |-> "pageId", off |-> "pageId"],
                 recording |-> [on |-> EmitEvent.Recording, off |-> EmitEvent.Recording] ]

IsRelay(conn) == conn.handlers # <<>> /\ conn.handlers[1] \in DOMAIN RelayEvents

\* Lines 402-477: an upgrade request arrives.  Its URL is parsed, the switch
\* picks the handler, and a relay handler, once the WebSocket is established,
\* subscribes its messageHandler to the driver's event.
Upgrade(url) ==
    LET id == Len(connections) + 1
        handlers == IF parsesUrl(url) THEN switchFrom(url, 1) ELSE <<>>
        relay == handlers # <<>> /\ handlers[1] \in DOMAIN RelayEvents
    IN /\ connections' = Append(connections,
                            [url |-> url, handlers |-> handlers,
                             ws |-> IF relay THEN "open" ELSE "none",
                             readyState |-> IF relay THEN "OPEN" ELSE "none",
                             sent |-> <<>>,
                             subscribed |-> IF relay THEN 1 ELSE 0,
                             unsubscribed |-> 0])
       /\ listeners' = IF relay
                       THEN [listeners EXCEPT ![RelayEvents[handlers[1]].on] = @ \cup {id}]
                       ELSE listeners
       /\ UNCHANGED <<sessionVars, captchaVars, httpVars>>

\* ws.on("error"), lines 385-387, 429-431, 460-462: the error is logged.
\* The socket may or may not deliver a close event afterwards, and may or
\* may not have left the OPEN state when the error is reported.
WsError(i, closeFollows) ==
    /\ connections[i].ws = "open"
    /\ \E rs \in {connections[i].readyState, "CLOSING"} :
          connections' = [connections EXCEPT
                            ![i].ws = IF closeFollows THEN "error" ELSE "errored",
                            ![i].readyState = rs]
    /\ UNCHANGED <<sessionVars, captchaVars, listeners, httpVars>>

\* The closing handshake of a socket begins: readyState is CLOSING until
\* the close event.
CloseStarts(i) ==
    /\ connections[i].ws = "open"
    /\ connections[i].readyState = "OPEN"
    /\ connections' = [connections EXCEPT ![i].readyState = "CLOSING"]
    /\ UNCHANGED <<sessionVars, captchaVars, listeners, httpVars>>

\* ws.on("close"), lines 389-392, 433-436, 455-458: removeListener.
WsClose(i) ==
    /\ connections[i].ws \in {"open", "error"}
    /\ LET off == RelayEvents[connections[i].handlers[1]].off
       IN /\ listeners' = [listeners EXCEPT ![off] = @ \ {i}]
          /\ connections' = [connections EXCEPT
                                ![i].ws = "closed",
                                ![i].readyState = "CLOSED",
                                ![i].unsubscribed = IF i \in listeners[off] THEN @ + 1 ELSE @]
    /\ UNCHANGED <<sessionVars, captchaVars, httpVars>>

\* Events emitted per socket.
MaxEvents == 1

\* A payload the driver emits: its JSON text as a sequence of tokens, and
\* the items of its events property (recording payloads).
EventPayloads ==
    [ log       |-> [text |-> <<"{", "line", "}">>, events |-> <<>>],
      pageId    |-> [text |-> <<"{", "pageId", "}">>, events |-> <<>>],
      recording |-> [text |-> <<"{", "events", "[", "e1", "e2", "]", "}">>,
                     events |-> <<"e1", "e2">>] ]

\* JSON.stringify of a list of items already in JSON text.
stringifyList(items) == <<"[">> \o items \o <<"]">>

\* A relay that sends every payload as it is.
frameOf_Verbatim(route, payload) == payload.text

\* What each route's messageHandler passes to ws.send: lines 379, 423, 445.
frameOf(route, payload) ==
    CASE route = "logs"      -> stringifyList(payload.text)
      [] route = "pageId"    -> payload.text
      [] route = "recording" -> stringifyList(payload.events)

\* A messageHandler that sends whatever the socket's state.
messageHandler_Unchecked(conn, event, payload) ==
    [conn EXCEPT !.sent = Append(@, [event |-> event, payload |-> payload,
                                     readyState |-> conn.readyState,
                                     data |-> frameOf(conn.handlers[1], payload)])]

\* The messageHandler of a relay connection (lines 377-381, 421-425,
\* 443-447), called with an event's payload: it sends only on an OPEN socket.
\* A frame is kept with the event and the socket state it was sent in.
messageHandler(conn, event, payload) ==
    IF conn.readyState = "OPEN"
    THEN [conn EXCEPT !.sent = Append(@, [event |-> event, payload |-> payload,
                                          readyState |-> conn.readyState,
                                          data |-> frameOf(conn.handlers[1], payload)])]
    ELSE conn

\* cdpService emits an event: every listener registered under its name is
\* called with the payload.
DriverEmit(event) ==
    /\ \A i \in listeners[event] : Len(connections[i].sent) < MaxEvents
    /\ connections' = [i \in DOMAIN connections |->
                         IF i \in listeners[event]
                         THEN messageHandler(connections[i], event, EventPayloads[event])
                         ELSE connections[i]]
    /\ UNCHANGED <<sessionVars, captchaVars, listeners, httpVars>>

\* Upgrade requests and the events of their sockets, in any order.
NextUpgrade ==
    \/ /\ Len(connections) < MaxConnections
       /\ \E url \in Urls : Upgrade(url)
    \/ \E i \in DOMAIN connections : \E closeFollows \in BOOLEAN : WsError(i, closeFollows)
    \/ \E i \in DOMAIN connections : WsClose(i)

SpecUpgrade == Init /\ [][NextUpgrade]_vars

\* The URLs of the relay routes, of the cast route and of the passthrough.
RelayUrls == {<<"/v1/sessions/", r>> : r \in {"logs", "pageId", "recording", "cast", "x"}}

\* The relays at work: MaxConnections + 1 connections, their sockets' events
\* and the driver's events, in any order.
NextRelay ==
    \/ /\ Len(connections) < MaxConnections + 1
       /\ \E url \in RelayUrls : Upgrade(url)
    \/ \E i \in DOMAIN connections : \E closeFollows \in BOOLEAN : WsError(i, closeFollows)
    \/ \E i \in DOMAIN connections : CloseStarts(i)
    \/ \E i \in DOMAIN connections : WsClose(i)
    \/ \E event \in EventNames : DriverEmit(event)

SpecRelay == Init /\ [][NextRelay]_vars

----------------------------------------------------------------------------
\* The handlers call the service as requests arrive: a start or end request
\* may arrive while earlier ones are suspended at an await.
NextOps(limit) ==
    \/ /\ Len(calls) < limit
       /\ \E proxyUrl, isSelenium, timezone \in BOOLEAN :
             StartSession(proxyUrl, isSelenium, timezone)
    \/ /\ Len(calls) < limit
       /\ EndSession
    \/ \E c \in DOMAIN calls : ResumeReset(c)
    \/ \E c \in DOMAIN calls : \E ok \in BOOLEAN : ResumeListen(c, ok)
    \/ \E c \in DOMAIN calls : \E ok \in BOOLEAN : ResumeGeo(c, ok)
    \/ \E c \in DOMAIN calls : \E ok \in BOOLEAN : ResumeMkdir(c, ok)
    \/ \E c \in DOMAIN calls : ResumeShutdown(c)
    \/ \E c \in DOMAIN calls : \E ok \in BOOLEAN : ResumeLaunch(c, ok)
    \/ \E c \in DOMAIN calls : \E ok \in BOOLEAN : ResumeStartNew(c, ok)
    \/ \E c \in DOMAIN calls : \E ok \in BOOLEAN : ResumeDriver(c, ok)
    \/ \E c \in DOMAIN calls : \E ok \in BOOLEAN : ResumeCleanup(c, ok)

\* The session service under any interleaving of MaxOps start and end
\* requests.
Next == NextOps(MaxOps)

Spec == Init /\ [][Next]_vars

\* The same with one request more.
NextRace == NextOps(MaxOps + 1)

SpecRace == Init /\ [][NextRace]_vars

\* Proxied traffic around the session service: start requests with or without
\* a proxy URL on the default driver, end requests, and the notifications of
\* the tunnels, in any interleaving.
NextTunnels(limit) ==
    \/ /\ Len(calls) < limit
       /\ \E proxyUrl \in BOOLEAN : StartSession(proxyUrl, FALSE, TRUE)
    \/ /\ Len(calls) < limit
       /\ EndSession
    \/ \E c \in DOMAIN calls : ResumeReset(c)
    \/ \E c \in DOMAIN calls : \E ok \in BOOLEAN : ResumeListen(c, ok)
    \/ \E c \in DOMAIN calls : \E ok \in BOOLEAN : ResumeMkdir(c, ok)
    \/ \E c \in DOMAIN calls : \E ok \in BOOLEAN : ResumeStartNew(c, ok)
    \/ \E c \in DOMAIN calls : \E ok \in BOOLEAN : ResumeDriver(c, ok)
    \/ \E c \in DOMAIN calls : \E ok \in BOOLEAN : ResumeCleanup(c, ok)
    \/ \E t \in DOMAIN tunnels : ConnectionClosed(t)

\* With MaxOps + 1 requests.
NextProxy == NextTunnels(MaxOps + 1)

SpecProxy == Init /\ [][NextProxy]_vars

\* With MaxOps requests.
NextTraffic == NextTunnels(MaxOps)

SpecTraffic == Init /\ [][NextTraffic]_vars

\* No startSession or endSession is in progress.
Quiet == InFlight = {}

\* get-session-by-id around serialized start and end calls on the default
\* driver, with a fresh id or the id of a released session, and the clock:
\* MaxOps calls among MaxRequests requests.
NextQueries ==
    \/ /\ Quiet /\ Len(calls) < MaxOps /\ Len(calls) + Len(queries) < MaxRequests
       /\ \E sessionId \in PastIds \cup {<<>>} :
             StartSessionAs(sessionId, "undefined", FALSE, FALSE, TRUE)
    \/ /\ Quiet /\ Len(calls) < MaxOps /\ Len(calls) + Len(queries) < MaxRequests
       /\ EndSession
    \/ \E c \in DOMAIN calls : \E ok \in BOOLEAN : ResumeMkdir(c, ok)
    \/ \E c \in DOMAIN calls : \E ok \in BOOLEAN : ResumeStartNew(c, ok)
    \/ \E c \in DOMAIN calls : \E ok \in BOOLEAN : ResumeDriver(c, ok)
    \/ \E c \in DOMAIN calls : \E ok \in BOOLEAN : ResumeCleanup(c, ok)
    \/ Tick
    \/ /\ Len(calls) + Len(queries) < MaxRequests
       /\ \E sessionId \in KnownIds : GetSessionDetails(sessionId)

SpecQueries == Init /\ [][NextQueries]_vars

\* The service with its start and end calls serialized: a call begins only
\* when no other is in progress.  list-sessions and the notifications of the
\* tunnels come at any time.  MaxOps + 1 calls among MaxRequests + 1 requests.
NextSerial ==
    \/ /\ Quiet /\ Len(calls) < MaxOps + 1 /\ Len(calls) + Len(queries) < MaxRequests + 1
       /\ \E proxyUrl \in BOOLEAN : StartSession(proxyUrl, FALSE, TRUE)
    \/ /\ Quiet /\ Len(calls) < MaxOps + 1 /\ Len(calls) + Len(queries) < MaxRequests + 1
       /\ EndSession
    \/ \E c \in DOMAIN calls : ResumeReset(c)
    \/ \E c \in DOMAIN calls : \E ok \in BOOLEAN : ResumeListen(c, ok)
    \/ \E c \in DOMAIN calls : \E ok \in BOOLEAN : ResumeMkdir(c, ok)
    \/ \E c \in DOMAIN calls : \E ok \in BOOLEAN : ResumeStartNew(c, ok)
    \/ \E c \in DOMAIN calls : \E ok \in BOOLEAN : ResumeDriver(c, ok)
    \/ \E c \in DOMAIN calls : \E ok \in BOOLEAN : ResumeCleanup(c, ok)
    \/ \E t \in DOMAIN tunnels : ConnectionClosed(t)
    \/ /\ Len(calls) + Len(queries) < MaxRequests + 1
       /\ ListSessions

SpecSerial == Init /\ [][NextSerial]_vars

\* Continuations that are ready around the captcha registry: a driver call
\* or file operation of a session call finishing, a solve step finishing.
ContinueCaptcha ==
    \/ \E c \in DOMAIN calls : \E ok \in BOOLEAN : ResumeMkdir(c, ok)
    \/ \E c \in DOMAIN calls : \E ok \in BOOLEAN : ResumeStartNew(c, ok)
    \/ \E c \in DOMAIN calls : \E ok \in BOOLEAN : ResumeDriver(c, ok)
    \/ \E c \in DOMAIN calls : \E ok \in BOOLEAN : ResumeCleanup(c, ok)
    \/ \E i \in DOMAIN solves : \E o \in SolveOutcomes : SolveFinish(i, o[1], o[2])

Requests == Len(calls) + Len(promises) + Len(waiters)

\* The captcha registry, with start and end requests around it: MaxRequests
\* requests in all, in any interleaving.
NextCaptcha ==
    \/ /\ Requests < MaxRequests
       /\ StartSession(FALSE, FALSE, TRUE)
    \/ /\ Requests < MaxRequests
       /\ EndSession
    \/ /\ Requests < MaxRequests
       /\ \E taskId \in TaskIds : InitiateCaptchaSolve(taskId)
    \/ /\ Requests < MaxRequests
       /\ \E taskId \in TaskIds : GetCaptchaStatus(taskId)
    \/ ContinueCaptcha

SpecCaptcha == Init /\ [][NextCaptcha]_vars

\* The event loop runs every continuation that is ready: a solve step, a
\* driver call or a file operation that was started eventually finishes.
\* Nothing makes a client send a further request.
SpecCaptchaFair == Init /\ [][NextCaptcha]_vars /\ WF_vars(ContinueCaptcha)

----------------------------------------------------------------------------
(* Properties of the captcha registry, checked under SpecCaptcha *)

\* The solve step i finishes in this step, i.e. calls updateCaptchaTask.
Finishes(i) == solves[i].state = "running" /\ solves'[i].state # "running"

\* The task the registry holds for the id solve step i reports on.
TaskOf(i) == captchaTasks[solves[i].taskId]

\* An endSession returns in this step, i.e. has called clearCaptchaTasks.
Clears == \E c \in DOMAIN calls :
             calls[c].op = "end" /\ calls[c].pc # "done" /\ calls'[c].pc = "done"

\* C1: updateCaptchaTask on a task that is no longer pending changes nothing:
\* whatever outcome is reported, the task's status, result, error and timing
\* fields stay as they are and its promise is not resolved or rejected again.
C1_UpdateSettledIsNoOp ==
    [][\A i \in DOMAIN solves :
          (Finishes(i) /\ TaskOf(i).status \in {"success", "failed", "timeout"})
              => (captchaTasks' = captchaTasks /\ promises' = promises)]_vars

\* A second report, with another outcome, has reached a task already recorded
\* as success.
C1_Witness ==
    \E i \in DOMAIN solves :
        /\ solves[i].saw = "settled"
        /\ solves[i].finalStatus = "timeout"
        /\ captchaTasks[solves[i].taskId].status = "success"
        /\ promises[captchaTasks[solves[i].taskId].promise].calls = 1

\* C2: updateCaptchaTask on a pending task with finalStatus failed or timeout
\* rejects the task's promise with that status, also when data holds only an
\* error message.
C2_FailureRejects ==
    [][\A i \in DOMAIN solves :
          (Finishes(i) /\ TaskOf(i).status = "pending"
                       /\ solves'[i].finalStatus \in {"failed", "timeout"})
              => /\ promises'[TaskOf(i).promise].state = "rejected"
                 /\ promises'[TaskOf(i).promise].value = solves'[i].finalStatus]_vars

Blocked(w) == w \in DOMAIN waiters /\ waiters[w].resp = "blocked"
Answered(w) == w \in DOMAIN waiters /\ waiters[w].resp # "blocked"

\* C3: every get-captcha-status request that found its task and blocked is
\* eventually answered (every solve step eventually finishes under
\* SpecCaptchaFair), and no answer carries the status pending.
C3_StatusRequestAnswered ==
    \A w \in 1..MaxRequests :
        /\ [](w \in DOMAIN waiters => waiters[w].resp # "pending")
        /\ [](Blocked(w) => <>Answered(w))

\* C4: the status written when a pending task is updated is success for
\* (success, flag true), failed for (success, flag false), and finalStatus
\* itself for failed and timeout.
C4_RecordedStatus ==
    [][\A i \in DOMAIN solves :
          (Finishes(i) /\ TaskOf(i).status = "pending")
              => captchaTasks'[solves[i].taskId].status =
                    CASE solves'[i].finalStatus = "success" /\ solves'[i].success -> "success"
                      [] solves'[i].finalStatus = "success" /\ ~solves'[i].success -> "failed"
                      [] OTHER -> solves'[i].finalStatus]_vars

\* A solved report whose payload says success: false was recorded as failed.
C4_Witness ==
    \E i \in DOMAIN solves :
        /\ solves[i].saw = "pending"
        /\ solves[i].finalStatus = "success"
        /\ ~solves[i].success
        /\ captchaTasks[solves[i].taskId].status = "failed"

\* C5: clearCaptchaTasks leaves the registry empty, rejects the promise of
\* every task that was pending with status failed, and leaves every other
\* promise as it was.
C5_ClearRejectsPending ==
    [][Clears =>
          /\ \A t \in TaskIds : captchaTasks'[t] = NoTask
          /\ \A p \in DOMAIN promises :
                IF \E t \in TaskIds : /\ captchaTasks[t].status = "pending"
                                      /\ captchaTasks[t].promise = p
                THEN /\ promises'[p].state = "rejected"
                     /\ promises'[p].value = "failed"
                     /\ promises'[p].calls = 1
                ELSE promises'[p] = promises[p]]_vars

\* A clear has met one pending and one resolved task: the registry is empty,
\* one promise is rejected with failed, the other still resolved, each
\* settled once.
C5_Witness ==
    /\ \A t \in TaskIds : captchaTasks[t] = NoTask
    /\ \E c \in DOMAIN calls : calls[c].op = "end" /\ calls[c].pc = "done"
    /\ \E p, q \in DOMAIN promises :
          /\ promises[p] = [state |-> "rejected", value |-> "failed", calls |-> 1]
          /\ promises[q] = [state |-> "resolved", value |-> "result", calls |-> 1]

\* C12: whenever the active session is replaced, by endSession or by a
\* startSession, the promise of every task that was pending is rejected and
\* the registry is empty afterwards.
C12_NoTaskOutlivesSession ==
    [][activeSession' # activeSession =>
          /\ \A t \in TaskIds : captchaTasks'[t] = NoTask
          /\ \A t \in TaskIds :
                captchaTasks[t].status = "pending"
                    => promises'[captchaTasks[t].promise].state = "rejected"]_vars

\* C13: no get-captcha-status request is answered 500, task state lost after
\* completion.
C13_NoStateLost ==
    \A w \in DOMAIN waiters : waiters[w].resp # "500"

----------------------------------------------------------------------------
(* Properties of the session lifecycle, checked under Spec *)

EndsReturned == {c \in DOMAIN calls : calls[c].op = "end" /\ calls[c].pc = "done"}
StartsReturned == {c \in DOMAIN calls : calls[c].op = "start" /\ calls[c].pc = "done"}

\* Invocation c takes this step (its first one when it is not in calls yet).
Steps(c) == c \notin DOMAIN calls \/ calls'[c] # calls[c]

\* C6: a step of startSession never changes history, the step in which it
\* installs its record makes a new record the active session, and history
\* holds one entry per endSession that has returned.
C6_HistoryCountsEnds ==
    [][/\ Len(pastSessions') = Cardinality(EndsReturned')
       /\ \A c \in DOMAIN calls' :
             (calls'[c].op = "start" /\ Steps(c))
                => /\ pastSessions' = pastSessions
                   /\ (calls'[c].sessionInfo # 0 /\ (c \notin DOMAIN calls
                                                     \/ calls[c].sessionInfo = 0))
                         => /\ activeSession' = Len(sessions')
                            /\ activeSession' # activeSession
                            /\ Len(sessions') = Len(sessions) + 1]_vars

\* A start has returned its record, having appended nothing, and then an end
\* has returned that record and history holds exactly that one entry.
C6_Witness ==
    /\ Len(calls) = 2
    /\ calls[1].op = "start" /\ calls[1].pc = "done" /\ calls[1].ret = 2
    /\ calls[2].op = "end" /\ calls[2].pc = "done" /\ calls[2].ret = 2
    /\ activeSession = 3
    /\ pastSessions = <<2>>

\* C7: when startSession returns the active session is live; when endSession
\* returns, the record it returns is released and the active session is
\* another record, which is idle.
C7_StartLiveEndReleased ==
    /\ \A c \in StartsReturned : calls[c].retStatus = "live"
    /\ \A c \in EndsReturned : /\ calls[c].retStatus = "released"
                               /\ calls[c].activeStatus = "idle"

\* C8: whenever a new record becomes the active session, the outgoing one
\* has been signalled and holds no tunnel, and the tunnel built for it, if
\* any, is closed.
C8_TornDownBeforeReplaced ==
    [][activeSession' # activeSession
          => /\ sessions'[activeSession].signalled
             /\ sessions'[activeSession].proxyServer = 0
             /\ tunnels'[activeSession] \in {"none", "closed"}]_vars

\* C9: whenever the active session reads live, its driver has been started
\* and, with a proxy URL requested, its tunnel is listening.
C9_LiveIsFullyBuilt ==
    sessions[activeSession].status = "live"
        => /\ sessions[activeSession].driverStarted
           /\ sessions[activeSession].proxy => tunnels[activeSession] = "listening"

\* C10: at most one startSession or endSession is in progress at any time.
C10_MutationsSerialized == Cardinality(InFlight) <= 1

\* C14: the completion signal of the active session is unsignalled unless the
\* session has been ended or is being replaced (a reset is waiting for its
\* tunnel to close), and every record that is no longer the active session
\* has been signalled; the record built at process start included.
C14_SignalledWhenEnded ==
    /\ sessions[activeSession].signalled
          => \/ sessions[activeSession].status = "released"
             \/ \E c \in DOMAIN calls : calls[c].pc = "reset"
    /\ \A s \in DOMAIN sessions : s # activeSession => sessions[s].signalled

\* C15: the step that ends the geolocation lookup never fails the start: the
\* call goes on to make its directory, keeps its timezone as it is until the
\* driver is launched, and a call without timezone launches the driver with
\* no timezone override.
C15_GeoFailureCaught ==
    [][\A c \in DOMAIN calls :
          /\ (calls[c].pc = "geo" /\ calls'[c] # calls[c]) => calls'[c].pc = "mkdir"
          /\ (calls[c].pc \in {"mkdir", "shutdown"} /\ calls'[c].pc # "threw")
                => calls'[c].timezone = calls[c].timezone
          /\ (calls[c].pc \in {"launch", "startNew"} /\ calls'[c].pc = "done"
                                                     /\ ~calls[c].timezone)
                => sessions'[calls[c].sessionInfo].launchTimezone = "unset"]_vars

\* A start with a proxy URL has returned a live session whose driver was
\* launched with no timezone: none was given and the lookup yielded none.
C15_Witness ==
    \E c \in StartsReturned :
        /\ sessions[calls[c].ret].proxy
        /\ sessions[calls[c].ret].status = "live"
        /\ sessions[calls[c].ret].driverStarted
        /\ sessions[calls[c].ret].launchTimezone = "unset"
        /\ tunnels[calls[c].ret] = "listening"

\* C16: a startSession is beyond its listen step only if the tunnel of its
\* record did start listening (or is already being closed), it returns only
\* if the driver launch for its record succeeded, and then the handler
\* answers 200; one that threw returns no session and the handler answers 500.
C16_FailuresPropagate ==
    \A c \in DOMAIN calls :
        calls[c].op = "start" =>
            /\ (calls[c].pc \in {"geo", "mkdir", "shutdown", "launch", "startNew", "done"}
                    /\ sessions[calls[c].sessionInfo].proxy)
                  => tunnels[calls[c].sessionInfo] # "new"
            /\ calls[c].pc = "done"
                  => /\ sessions[calls[c].sessionInfo].driverStarted
                     /\ calls[c].reply = "200"
            /\ calls[c].pc = "threw" => (calls[c].ret = 0 /\ calls[c].reply = "500")

\* One start has failed at listen and another at the driver launch: both
\* threw and were answered 500, the tunnel never listened and no driver was
\* started for either record.
C16_Witness ==
    \E c, d \in DOMAIN calls :
        /\ calls[c].op = "start" /\ calls[c].pc = "threw" /\ calls[c].reply = "500"
        /\ calls[c].threwAt = "listen"
        /\ sessions[calls[c].sessionInfo].proxy
        /\ tunnels[calls[c].sessionInfo] = "new"
        /\ ~sessions[calls[c].sessionInfo].driverStarted
        /\ calls[d].op = "start" /\ calls[d].pc = "threw" /\ calls[d].reply = "500"
        /\ calls[d].threwAt = "startNew"
        /\ ~sessions[calls[d].sessionInfo].proxy
        /\ ~sessions[calls[d].sessionInfo].driverStarted

\* C17: the record a startSession with the selenium flag returns has the
\* empty string for each of its four endpoint URLs, and the record one
\* without the flag returns has the derived URL for each.
C17_EndpointUrls ==
    \A c \in StartsReturned :
        LET s == sessions[calls[c].ret]
            urls == [u \in DOMAIN DefaultUrls |-> s[u]]
        IN IF sessions[calls[c].sessionInfo].isSelenium
           THEN urls = [u \in DOMAIN DefaultUrls |-> ""]
           ELSE urls = DefaultUrls

\* C18: the Selenium driver and the default driver are never up together.
C18_OneDriver ==
    ~(selenium = "running" /\ cdp \in {"running", "session"})

----------------------------------------------------------------------------
(* Proxy traffic accounting, checked under SpecProxy *)

\* C11: the byte counts of a tunnel's connection-closed notifications are
\* added to the session the tunnel was built for, and to no other session.
C11_BytesToOwner ==
    \A s \in DOMAIN sessions : sessions[s].bytesFrom \subseteq {s}

----------------------------------------------------------------------------
(* Properties of the upgrade entry point, checked under SpecUpgrade *)

\* C19: every upgrade request has reached exactly one handler: the one whose
\* path prefix its URL starts with, and the driver's passthrough when it
\* starts with none of the four.
C19_ExactlyOneHandler ==
    \A i \in DOMAIN connections :
        LET conn == connections[i]
        IN /\ Len(conn.handlers) = 1
           /\ \A k \in DOMAIN Cases :
                 startsWith(conn.url, Cases[k].prefix) => conn.handlers = <<Cases[k].handler>>
           /\ (\A k \in DOMAIN Cases : ~startsWith(conn.url, Cases[k].prefix))
                 => conn.handlers = <<"cdp">>

\* C20: a relay connection has subscribed exactly one listener; while it is
\* open the listener is registered and nothing was unsubscribed, and once it
\* has ended, by close or by error, the listener is registered no more and
\* exactly one unsubscription has fired.
C20_OneSubscribeOneUnsubscribe ==
    \A i \in DOMAIN connections :
        IsRelay(connections[i]) =>
            LET conn == connections[i]
                event == RelayEvents[conn.handlers[1]].on
            IN /\ conn.subscribed = 1
               /\ conn.ws \in {"open", "error"}
                     => (i \in listeners[event] /\ conn.unsubscribed = 0)
               /\ conn.ws \in {"closed", "errored"}
                     => (i \notin listeners[event] /\ conn.unsubscribed = 1)

----------------------------------------------------------------------------
(* Session queries and records *)

\* The six counters of a record.
Counters == {"duration", "eventCount", "timeout", "creditsUsed", "proxyTxBytes", "proxyRxBytes"}

\* The step answers a query of the given kind.
Answers(op) == /\ Len(queries') = Len(queries) + 1
               /\ queries'[Len(queries')].op = op

\* C21: get-session-by-id answers with the active session, its duration
\* computed at the time of the request, exactly when the requested id is the
\* active session's id; for every other id it answers with a placeholder of
\* that id whose status is 'released' and whose counters are all zero.
C21_ActiveOrPlaceholder ==
    [][Answers("get") =>
         LET q == queries'[Len(queries')]
             r == q.reply[1]
             a == sessions[activeSession]
         IN IF q.sessionId = a.id
            THEN /\ r.id = a.id /\ r.status = a.status /\ r.createdAt = a.createdAt
                 /\ r.duration = now - a.createdAt
                 /\ \A f \in Counters \ {"duration"} : r[f] = a[f]
            ELSE /\ r.id = q.sessionId /\ r.status = "released"
                 /\ \A f \in Counters : r[f] = 0]_vars

\* A live session was asked for by its id after time had passed, and another
\* record's id was asked for while it was active.
C21_Witness ==
    /\ \E k \in DOMAIN queries :
          /\ queries[k].op = "get"
          /\ queries[k].reply[1].status = "live"
          /\ queries[k].reply[1].duration > 0
    /\ \E k \in DOMAIN queries :
          /\ queries[k].op = "get"
          /\ queries[k].sessionId \in {sessions[i].id : i \in DOMAIN sessions}
          /\ queries[k].sessionId # sessions[activeSession].id
          /\ queries[k].reply[1].status = "released"

\* The step in which call c, an endSession, returns.
EndReturns(c) == /\ c \in DOMAIN calls /\ calls[c].op = "end"
                 /\ calls[c].pc # "done" /\ calls'[c].pc = "done"

\* C22: the record endSession returns has as duration the time of the
\* release (the clock at line 233 of that call) minus its createdAt, which is
\* not negative, and the duration of a record that was returned, which is
\* the record kept in the history, does not change.
C22_DurationFixedAtRelease ==
    [][/\ \A c \in DOMAIN calls : EndReturns(c) =>
             LET r == sessions'[calls'[c].ret]
             IN /\ r.duration = calls'[c].at - r.createdAt
                /\ r.duration >= 0
       /\ \A k \in DOMAIN pastSessions :
             sessions'[pastSessions[k]].duration = sessions[pastSessions[k]].duration]_vars

----------------------------------------------------------------------------
(* Captcha tasks: registration, settlement, overwrite *)

\* Status request w came after initiation i had answered 202, for the same
\* taskId and with the same session active.
After202(w, i) == /\ i <= waiters[w].initiated
                  /\ solves[i].taskId = waiters[w].taskId
                  /\ solves[i].session = waiters[w].session

\* C23: the task is registered before 202 is answered, whatever the solve
\* step does afterwards: a get-captcha-status for a taskId made after its
\* initiation, with the same session still active, is never answered 404.
C23_KnownAfter202 ==
    \A w \in DOMAIN waiters : \A i \in DOMAIN solves :
        After202(w, i) => waiters[w].resp # "404"

\* A status request came after the 202 of an initiation whose solve step is
\* still running, with the same session active, and waits for the task.
C23_Witness ==
    \E w \in DOMAIN waiters : \E i \in DOMAIN solves :
        /\ After202(w, i)
        /\ waiters[w].resp = "blocked"
        /\ solves[i].state = "running"

\* The step in which updateCaptchaTask, called by solve step i, settles the
\* promise of the pending task it found.
Settles(i) == /\ i \in DOMAIN solves
              /\ solves[i].state = "running" /\ solves'[i].state # "running"
              /\ solves'[i].saw = "pending"
              /\ promises[captchaTasks[solves[i].taskId].promise].state = "pending"
              /\ promises'[captchaTasks[solves[i].taskId].promise].state # "pending"

\* C24: when updateCaptchaTask settles a pending task, the promise is
\* resolved if and only if the status recorded in the task is 'success'; a
\* task recorded 'failed' has its promise rejected.
C24_ResolvedIffSuccess ==
    [][\A i \in DOMAIN solves : Settles(i) =>
         LET taskId == solves[i].taskId
             p == captchaTasks[taskId].promise
         IN (promises'[p].state = "resolved") <=> (captchaTasks'[taskId].status = "success")]_vars

\* The sessions endSession has released: their captcha tasks were removed
\* by the clearCaptchaTasks of line 252.
Ended == {pastSessions[k] : k \in DOMAIN pastSessions}

\* C25: a solve step that finishes after its session ended has no effect:
\* its updateCaptchaTask re-creates no task, changes no registry entry and
\* settles no promise.
C25_LateUpdateIsNoOp ==
    [][\A i \in DOMAIN solves : (Finishes(i) /\ solves[i].session \in Ended) =>
          (captchaTasks' = captchaTasks /\ promises' = promises)]_vars

\* The step in which an endSession pushes the released session and clears
\* the captcha tasks (lines 251-252).
SessionEnds == Len(pastSessions') = Len(pastSessions) + 1

\* C26: every promise made by addCaptchaTask is settled by updateCaptchaTask
\* or, at the latest, by the clearCaptchaTasks of the session's end, also when
\* its task was overwritten by a second addCaptchaTask of the same taskId.
\* Stated for the runs in which no updateCaptchaTask has thrown.
C26_SettledBySessionEnd ==
    [][(SessionEnds /\ \A i \in DOMAIN solves : solves[i].state # "threw") =>
          \A p \in DOMAIN promises : promises'[p].state # "pending"]_vars

----------------------------------------------------------------------------
(* Tunnels, counters, defaults and history *)

\* The tunnels that are open: listening, or still closing.
OpenTunnels == {t \in DOMAIN tunnels : tunnels[t] \in {"listening", "closing"}}

\* C27: at most one proxy tunnel is open, the one of the active session, and
\* no other record (released, or replaced by a later start) holds a tunnel
\* handle.
C27_OneTunnelOfActive ==
    /\ Cardinality(OpenTunnels) <= 1
    /\ OpenTunnels \subseteq {activeSession}
    /\ \A s \in DOMAIN sessions : s # activeSession => sessions[s].proxyServer = 0

\* C28: every session record is created with its six counters at zero,
\* whatever the overrides and the counters of the session it replaces, and
\* the proxyTxBytes and proxyRxBytes of a record never decrease.
C28_CountersStartAtZero ==
    /\ \A f \in Counters : sessions[1][f] = 0
    /\ [][/\ \A i \in (DOMAIN sessions') \ (DOMAIN sessions) :
                (\A f \in Counters : sessions'[i][f] = 0)
           /\ \A k \in DOMAIN sessions :
                /\ sessions'[k].proxyTxBytes >= sessions[k].proxyTxBytes
                /\ sessions'[k].proxyRxBytes >= sessions[k].proxyRxBytes]_vars

\* A record was created after the session before it had counted bytes.
C28_Witness ==
    /\ Len(sessions) >= 3
    /\ sessions[2].proxyTxBytes > 0 /\ sessions[2].proxyRxBytes > 0
    /\ activeSession = 3
    /\ \A f \in Counters : sessions[3][f] = 0

\* The startSession calls in progress whose record has been built and whose
\* request supplied no viewport, no selenium flag and no proxy URL.
PlainStarts == {c \in DOMAIN calls : /\ calls[c].op = "start"
                                      /\ calls[c].pc \in InFlightPcs \ {"reset"}
                                      /\ calls[c].sessionInfo # 0
                                      /\ calls[c].dimensions = "undefined"
                                      /\ ~calls[c].isSelenium
                                      /\ ~calls[c].proxyUrl}

\* C29: the record resetSessionInfo builds takes a field from the default
\* when the caller supplied none: a startSession given no viewport, no
\* selenium flag and no proxy URL yields the viewport 1920x1080, isSelenium
\* false and proxy "".
C29_DefaultsWhenNotSupplied ==
    \A c \in PlainStarts :
        LET d == sessions[calls[c].sessionInfo].details
        IN /\ d.dimensions = DefaultSession.dimensions
           /\ d.isSelenium = DefaultSession.isSelenium
           /\ d.proxy = DefaultSession.proxy

\* C30: with start and end calls run one after the other, the history only
\* grows at its end: no step removes, reorders or changes an entry (a tunnel's
\* notification included), every entry has status 'released', and
\* list-sessions answers with the current session followed by the history in
\* release order.
C30_HistoryAppendOnly ==
    [][/\ Len(pastSessions') >= Len(pastSessions)
       /\ \A k \in DOMAIN pastSessions :
             /\ pastSessions'[k] = pastSessions[k]
             /\ sessions'[pastSessions[k]] = sessions[pastSessions[k]]
       /\ \A k \in DOMAIN pastSessions' : sessions'[pastSessions'[k]].status = "released"
       /\ Answers("list") =>
             LET r == queries'[Len(queries')].reply
             IN /\ Len(r) = Len(pastSessions) + 1
                /\ r[1].id = sessions[activeSession].id
                /\ r[1].status = sessions[activeSession].status
                /\ \A k \in DOMAIN pastSessions :
                      \A f \in ReplyFields : r[k + 1][f] = sessions[pastSessions[k]][f]]_vars

\* Two sessions were released one after the other, the first having counted
\* bytes, and list-sessions was answered with both after the current one.
C30_Witness ==
    /\ Len(pastSessions) = 2
    /\ sessions[pastSessions[1]].proxyRxBytes > 0
    /\ \E q \in DOMAIN queries :
          /\ queries[q].op = "list"
          /\ Len(queries[q].reply) = 3
          /\ queries[q].reply[2].id = sessions[pastSessions[1]].id
          /\ queries[q].reply[3].id = sessions[pastSessions[2]].id

----------------------------------------------------------------------------
(* The event relays, checked under SpecRelay *)

\* The route of a relay connection.
RouteOf(i) == connections[i].handlers[1]

\* The relay connections.
Relays == {i \in DOMAIN connections : IsRelay(connections[i])}

\* C31: every frame a relay has sent has the shape of its route: the logs
\* route sends a one-element list holding the payload, the pageId route the
\* payload itself, the recording route the payload's events list alone.
C31_FrameShapes ==
    \A i \in Relays : \A k \in DOMAIN connections[i].sent :
        LET f == connections[i].sent[k]
        IN /\ RouteOf(i) = "logs" =>
                /\ Len(f.data) = Len(f.payload.text) + 2
                /\ f.data[1] = "[" /\ f.data[Len(f.data)] = "]"
                /\ SubSeq(f.data, 2, Len(f.data) - 1) = f.payload.text
           /\ RouteOf(i) = "pageId" => f.data = f.payload.text
           /\ RouteOf(i) = "recording" =>
                /\ Len(f.data) = Len(f.payload.events) + 2
                /\ f.data[1] = "[" /\ f.data[Len(f.data)] = "]"
                /\ SubSeq(f.data, 2, Len(f.data) - 1) = f.payload.events

\* A logs socket and a recording socket have each been sent a frame.
C31_Witness ==
    /\ \E i \in Relays : RouteOf(i) = "logs" /\ Len(connections[i].sent) > 0
    /\ \E i \in Relays : RouteOf(i) = "recording" /\ Len(connections[i].sent) > 0

\* The sockets of a route that have not ended.
Open(route) == {i \in Relays : RouteOf(i) = route /\ connections[i].ws \in {"open", "error"}}

\* C32: on each topic of the driver there are as many listeners as there are
\* open sockets on the matching route, and they are those sockets' listeners.
C32_ListenersMatchSockets ==
    \A route \in DOMAIN RelayEvents : listeners[RelayEvents[route].on] = Open(route)

\* C33: an event is delivered only to the sockets of its topic's route, and
\* only to a socket that is open when it is sent.
C33_OnlyOwnTopicWhileOpen ==
    \A i \in Relays : \A k \in DOMAIN connections[i].sent :
        LET f == connections[i].sent[k]
        IN /\ f.event = RelayEvents[RouteOf(i)].on
           /\ f.readyState = "OPEN"

\* A log event was sent to a logs socket while an earlier socket, still
\* there, was sent nothing: a pageId socket, or a logs socket that is closing.
C33_Witness ==
    /\ Len(connections) = 2
    /\ RouteOf(1) \in {"pageId", "logs"} /\ RouteOf(2) = "logs"
    /\ connections[1].ws = "open" /\ connections[1].sent = <<>>
    /\ RouteOf(1) = "logs" => connections[1].readyState = "CLOSING"
    /\ Len(connections[2].sent) = 1 /\ connections[2].sent[1].event = "log"

----------------------------------------------------------------------------
(* Failures and overlaps of startSession and endSession *)

\* The step in which call c throws.
Throws(c, op) == /\ c \in DOMAIN calls /\ calls[c].op = op
                 /\ calls[c].pc \in InFlightPcs /\ calls'[c].pc = "threw"

\* C34: when endSession throws (driver teardown or file cleanup), the active
\* session has the status and the completion state the call found, and the
\* history and the captcha registry are as they were.
C34_FailedEndChangesNothing ==
    [][\A c \in DOMAIN calls : Throws(c, "end") =>
          /\ sessions'[activeSession'].status = calls[c].wasStatus
          /\ sessions'[activeSession'].signalled = calls[c].wasSignalled
          /\ pastSessions' = pastSessions
          /\ captchaTasks' = captchaTasks]_vars

\* C35: when startSession throws after the slot was reset (listen, working
\* directory or driver launch), the active session is not left with status
\* 'live' without a driver started for it.
C35_FailedStartNotLive ==
    [][\A c \in DOMAIN calls : Throws(c, "start") =>
          (sessions'[activeSession'].status = "live"
              => sessions'[activeSession'].driverStarted)]_vars

\* C36: whatever starts while an endSession is suspended, that endSession
\* cleans the files of, appends to the history and returns the session that
\* was active when it began, with status 'released', and no other.
C36_EndKeepsItsSession ==
    [][\A c \in DOMAIN calls : calls[c].op = "end" =>
          /\ (calls[c].pc = "driver" /\ calls'[c].pc = "cleanup")
                => cleaned' \subseteq cleaned \cup {calls[c].began}
          /\ EndReturns(c) =>
                /\ calls'[c].ret = calls[c].began
                /\ calls'[c].retStatus = "released"
                /\ pastSessions' = Append(pastSessions, calls[c].began)]_vars

\* C37: a session is appended to the history only by an endSession that
\* found it with status 'live': ending an idle session appends nothing.
C37_OnlyLiveSessionsArchived ==
    [][\A c \in DOMAIN calls :
          (EndReturns(c) /\ Len(pastSessions') > Len(pastSessions))
              => calls[c].wasStatus = "live"]_vars

====
